---- MODULE Spec2Model ----
(***************************************************************************)
(* rest_api.py: a Flask service over the sqlite table "people", a Redis    *)
(* key "_key_<id>" with a 30 minute expiry set when a user is added, and   *)
(* the Celery periodic task increment_points.                              *)
(*                                                                         *)
(* Request handlers run concurrently with each other and with the periodic *)
(* task; every sqlite statement (with its commit) and every Redis command  *)
(* is one atomic step, and a handler is the sequence of its steps.         *)
(***************************************************************************)
EXTENDS Integers, Sequences, FiniteSets, TLC

VARIABLES
    people,     \* the table: row id -> [name, surname, birth, points]
    seq,        \* the last row id the table assigned
    redis,      \* the expiring Redis keys: key (text) -> seconds left
    redisUp,    \* whether the Redis server answers
    req,        \* one record per request-handling context
    last,       \* the response sent most recently
    job,        \* the periodic task: position, key list, local "points"
    nops,       \* requests, task runs and Redis outages started so far
    age,        \* history: row id -> seconds since its insert committed
    lockLeft,   \* history: row id -> seconds left of the lock set for it
    jstart,     \* history: the table when the running task listed the keys
    jclean      \* history: no request wrote the table since the task started

vars == <<people, seq, redis, redisUp, req, last, job, nops,
          age, lockLeft, jstart, jclean>>

-----------------------------------------------------------------------------
(* Bounds of the model.                                                    *)

\* Requests, runs of the periodic task and Redis outages in one behaviour.
MaxOps == 3

\* Seconds that pass in one step of the clock.
TickSeconds == 1800

\* The request-handling contexts that may run at the same time.
Reqs == {1, 2}

\* The table's id counter when the service starts: the rows of earlier runs
\* (all since removed) used the ids up to it, so that the ids assigned now
\* have one digit and two.
FirstSeq == 8

AllIds == (FirstSeq + 1)..(FirstSeq + MaxOps)

-----------------------------------------------------------------------------
(* Text.  A text is a sequence of one-character strings.                   *)

Digits == <<"0", "1", "2", "3", "4", "5", "6", "7", "8", "9">>

\* str(new_id): the decimal text of a non-negative integer.
RECURSIVE str_int(_)
str_int(n) ==
    IF n < 10 THEN <<Digits[n + 1]>>
    ELSE str_int(n \div 10) \o <<Digits[(n % 10) + 1]>>

\* str(key) of a bytes key: b'...'.
str_bytes(b) == <<"b", "'">> \o b \o <<"'">>

\* s[lo:-1] of Python, lo counted from 0.
SliceToLast(s, lo) == SubSeq(s, lo + 1, Len(s) - 1)

IsDigit(c) == \E i \in 1..10 : Digits[i] = c

DigitValue(c) == (CHOOSE i \in 1..10 : Digits[i] = c) - 1

IsIntText(s) == Len(s) > 0 /\ \A i \in 1..Len(s) : IsDigit(s[i])

RECURSIVE ParseInt(_)
ParseInt(s) ==
    IF Len(s) = 0 THEN 0
    ELSE 10 * ParseInt(SubSeq(s, 1, Len(s) - 1)) + DigitValue(s[Len(s)])

HasPrefix(s, p) == Len(s) >= Len(p) /\ SubSeq(s, 1, Len(p)) = p

-----------------------------------------------------------------------------
(* JSON values of the "id" field: a number or a text.                      *)

Num(n) == [t |-> "int", n |-> n, s |-> <<>>]
Txt(s) == [t |-> "str", n |-> 0, s |-> s]

\* Python's ==: a number never equals a text.
PyEq(a, b) == a.t = b.t /\ a.n = b.n /\ a.s = b.s

\* "x in list" of Python.
PyIn(x, list) == \E i \in 1..Len(list) : PyEq(x, list[i])

-----------------------------------------------------------------------------
(* Redis.                                                                  *)

expire_after == 60 * 30

KeyPrefix == <<"_", "k", "e", "y", "_">>

\* The Celery broker keeps its own keys in the same Redis server.
BrokerKeys == {<<"_", "k", "o", "m", "b", "u", ".", "b", "i", "n", "d", "i", "n", "g",
                 ".", "c", "e", "l", "e", "r", "y">>, <<"c", "e", "l", "e", "r", "y">>}

\* "_key_" + str(new_id)
LockKey(n) == KeyPrefix \o str_int(n)

\* redis.keys("_key_*"): the keys present that match the pattern.
redis_keys(kv) == {k \in (DOMAIN kv) \cup BrokerKeys : HasPrefix(k, KeyPrefix)}

\* The key written only when it is absent, as SET with NX does.
redis_set_if_absent(kv, name, time) ==
    [k \in (DOMAIN kv) \cup {name} |-> IF k \in DOMAIN kv THEN kv[k] ELSE time]

\* redis.setex(name, time, value): the key is (re)written with a fresh expiry.
redis_setex(kv, name, time) ==
    [k \in (DOMAIN kv) \cup {name} |-> IF k = name THEN time ELSE kv[k]]

\* The time left of a key after d more seconds.
TimeLeft(ttl, d) == ttl - d

\* Redis drops a key when its time is up.
redis_elapse(kv, d) ==
    [k \in {x \in DOMAIN kv : TimeLeft(kv[x], d) > 0} |-> TimeLeft(kv[k], d)]

\* The slice taken one character early: str(key)[6:-1].
KeySliceOneEarly(key) == SliceToLast(str_bytes(key), 6)

\* str(key)[7:-1] of one key.
KeySlice(key) == SliceToLast(str_bytes(key), 7)

\* get_keys(redis_list), the list in the order Redis returned the keys.
get_keys(redis_list) == [i \in 1..Len(redis_list) |-> Txt(KeySlice(redis_list[i]))]

\* The orders in which Redis may return a set of keys.
Orders(S) ==
    {o \in [1..Cardinality(S) -> S] : \A i, j \in 1..Cardinality(S) : i # j => o[i] # o[j]}

-----------------------------------------------------------------------------
(* sqlite.                                                                 *)

\* "where id = ?": the integer column compared with a bound parameter; a
\* text parameter that reads as an integer is converted before comparing.
IdMatches(rowid, param) ==
    IF param.t = "int" THEN rowid = param.n
    ELSE IsIntText(param.s) /\ ParseInt(param.s) = rowid

\* The rows a "where id = ?" selects.
Rows(tbl, param) == {n \in DOMAIN tbl : IdMatches(n, param)}

\* The id the table gives the next row: one more than the last it gave.
NextRowId(s) == s + 1

\* insert into people ...: the row is stored under its id.
Insert(tbl, n, row) == [k \in (DOMAIN tbl) \cup {n} |-> IF k = n THEN row ELSE tbl[k]]

\* The delete with its "where id=?" left out.
DeleteAllRows(tbl, param) == <<>>

\* delete from people where id=?
DeleteRows(tbl, param) == [k \in (DOMAIN tbl) \ Rows(tbl, param) |-> tbl[k]]

\* The update with "points=?" left out of its set list.
UpdateRowsWithoutPoints(tbl, param, row) ==
    [k \in DOMAIN tbl |->
        IF IdMatches(k, param) THEN [row EXCEPT !.points = tbl[k].points] ELSE tbl[k]]

\* update people set name=?, surname=?, birth=?, points=? where id=?
UpdateRows(tbl, param, row) ==
    [k \in DOMAIN tbl |-> IF IdMatches(k, param) THEN row ELSE tbl[k]]

\* The update of the points with its "where id=?" left out.
UpdatePointsAllRows(tbl, param, points) ==
    [k \in DOMAIN tbl |-> [tbl[k] EXCEPT !.points = points]]

\* update people set points=? where id=?
UpdatePoints(tbl, param, points) ==
    [k \in DOMAIN tbl |->
        IF IdMatches(k, param) THEN [tbl[k] EXCEPT !.points = points] ELSE tbl[k]]

-----------------------------------------------------------------------------
(* Requests.                                                               *)

NewUserBodies == {[name |-> "A", surname |-> "B", birth |-> "2000-01-01", points |-> 5]}

UpdateBodies == {[name |-> "X", surname |-> "Y", birth |-> "1999-12-31", points |-> 7]}

NoBody == [name |-> "", surname |-> "", birth |-> "", points |-> 0]

\* The ids a client sends: an id the table has assigned, as a JSON number
\* or as the decimal text of that number.
UidInputs == UNION {{Num(n), Txt(str_int(n))} : n \in DOMAIN age}

MsgAdded == "New user added"
MsgUnavailable == "User not available, try later"
MsgNothingToDelete == "Nothing to delete"
MsgDeleted == "User deleted"
MsgNothingToUpdate == "Nothing to update"
MsgUpdated == "User updated"
\* An exception left the handler: the request fails with a server error.
MsgError == "Internal Server Error"
MsgUsersNotFound == "Users not found"
MsgUsersFound == "Users found"
MsgUserNotFound == "User not found"
MsgUserFound == "User found"

Idle == [pc |-> "idle", op |-> "", uid |-> Num(0), body |-> NoBody]

NoResponse == [op |-> "", uid |-> Num(0), body |-> NoBody, msg |-> "", users |-> <<>>]

\* The handler returns: the response is sent and the context is free again.
Reply(r, op, uid, body, msg) ==
    /\ req' = [req EXCEPT ![r] = Idle]
    /\ last' = [op |-> op, uid |-> uid, body |-> body, msg |-> msg, users |-> <<>>]

\* The handler returns the rows it fetched.
ReplyRows(r, op, uid, msg, users) ==
    /\ req' = [req EXCEPT ![r] = Idle]
    /\ last' = [op |-> op, uid |-> uid, body |-> NoBody, msg |-> msg, users |-> users]

\* The handler goes on to its next statement.
Goto(r, op, uid, body, pc) ==
    /\ req' = [req EXCEPT ![r] = [pc |-> pc, op |-> op, uid |-> uid, body |-> body]]
    /\ UNCHANGED last

\* A new request is taken by the first free context.
CanStart(r) ==
    /\ req[r].pc = "idle"
    /\ \A q \in Reqs : q < r => req[q].pc # "idle"
    /\ nops < MaxOps

JobIdle(status) == [pc |-> "idle", keys |-> <<>>, i |-> 1, points |-> 0, status |-> status]

Init ==
    /\ people = <<>>
    /\ seq = FirstSeq
    /\ redis = <<>>
    /\ redisUp = TRUE
    /\ req = [r \in Reqs |-> Idle]
    /\ last = NoResponse
    /\ job = JobIdle("")
    /\ nops = 0
    /\ age = <<>>
    /\ lockLeft = <<>>
    /\ jstart = <<>>
    /\ jclean = TRUE

-----------------------------------------------------------------------------
(* The lock check of delete_user_by_id and update_user.                    *)

\* The lock check with the Redis error caught and taken as "no lock".
LockCheckFailOpen(up, kv, uid) ==
    IF up /\ PyIn(uid, get_keys(CHOOSE o \in Orders(redis_keys(kv)) : TRUE)) THEN "locked"
    ELSE "free"

\* new_keys = get_keys(redis.keys("_key_*")); uid in new_keys.  redis.keys
\* raises when the server does not answer, and nothing catches it.
LockCheck(up, kv, uid) ==
    IF ~up THEN "error"
    ELSE IF PyIn(uid, get_keys(CHOOSE o \in Orders(redis_keys(kv)) : TRUE)) THEN "locked"
    ELSE "free"

-----------------------------------------------------------------------------
(* The routes.  A request arrives with every obligatory parameter, so      *)
(* check_if_all_exist passes it on to the handler.                         *)

Arrive(r, op, uid, body, pc) ==
    /\ CanStart(r)
    /\ nops' = nops + 1
    /\ req' = [req EXCEPT ![r] = [pc |-> pc, op |-> op, uid |-> uid, body |-> body]]
    /\ UNCHANGED <<people, seq, redis, redisUp, last, job, age, lockLeft, jstart, jclean>>

\* POST /rest_api/user
PostUser(r, body) == Arrive(r, "POST", Num(0), body, "insert")

\* DELETE /rest_api/user
DeleteUser(r, uid) == Arrive(r, "DELETE", uid, NoBody, "del_keys")

\* PUT /rest_api/user
PutUser(r, uid, body) == Arrive(r, "PUT", uid, body, "upd_select")

\* GET /rest_api/users
GetUsers(r) == Arrive(r, "GET_USERS", Num(0), NoBody, "users_select")

\* GET /rest_api/user
GetUser(r, uid) == Arrive(r, "GET", uid, NoBody, "user_select")

-----------------------------------------------------------------------------
(* get_users and get_user                                                  *)

\* The rows of a table with the given ids, as fetchall() returns them.
Fetch(tbl, ids) == [n \in ids |-> tbl[n]]

\* select ... from people; users = cur.fetchall(); if not users
GetUsersSelect(r) ==
    /\ req[r].pc = "users_select"
    /\ LET users == Fetch(people, DOMAIN people) IN
       IF DOMAIN users = {}
       THEN ReplyRows(r, "GET_USERS", req[r].uid, MsgUsersNotFound, <<>>)
       ELSE ReplyRows(r, "GET_USERS", req[r].uid, MsgUsersFound, users)
    /\ UNCHANGED <<people, seq, redis, redisUp, nops, job, age, lockLeft, jstart, jclean>>

\* get_user that answers for a locked row as update_user does.
GetUserSelectChecksLock(r) ==
    /\ req[r].pc = "user_select"
    /\ LET user == Fetch(people, Rows(people, req[r].uid)) IN
       IF DOMAIN user = {}
       THEN ReplyRows(r, "GET", req[r].uid, MsgUserNotFound, <<>>)
       ELSE IF LockCheck(redisUp, redis, req[r].uid) = "locked"
       THEN ReplyRows(r, "GET", req[r].uid, MsgUnavailable, <<>>)
       ELSE ReplyRows(r, "GET", req[r].uid, MsgUserFound, user)
    /\ UNCHANGED <<people, seq, redis, redisUp, nops, job, age, lockLeft, jstart, jclean>>

\* select ... from people where id=?; user = cur.fetchall(); if not user
GetUserSelect(r) ==
    /\ req[r].pc = "user_select"
    /\ LET user == Fetch(people, Rows(people, req[r].uid)) IN
       IF DOMAIN user = {}
       THEN ReplyRows(r, "GET", req[r].uid, MsgUserNotFound, <<>>)
       ELSE ReplyRows(r, "GET", req[r].uid, MsgUserFound, user)
    /\ UNCHANGED <<people, seq, redis, redisUp, nops, job, age, lockLeft, jstart, jclean>>

-----------------------------------------------------------------------------
(* add_user                                                                *)

\* db.execute("insert ..."); db.commit(); new_id = cur.lastrowid
AddUserInsert(r) ==
    /\ req[r].pc = "insert"
    /\ seq' = NextRowId(seq)
    /\ people' = Insert(people, NextRowId(seq), req[r].body)
    /\ Goto(r, "POST", Num(NextRowId(seq)), req[r].body, "setex")
    /\ age' = Insert(age, NextRowId(seq), 0)
    /\ jclean' = FALSE
    /\ jstart' = <<>>
    /\ UNCHANGED <<redis, redisUp, nops, job, lockLeft>>

\* redis.setex("_key_" + str(new_id), expire_after, "key"); return
AddUserSetex(r) ==
    /\ req[r].pc = "setex"
    /\ IF redisUp
       THEN /\ redis' = redis_setex(redis, LockKey(req[r].uid.n), expire_after)
            /\ lockLeft' = Insert(lockLeft, req[r].uid.n, expire_after)
            /\ Reply(r, "POST", req[r].uid, req[r].body, MsgAdded)
       ELSE /\ Reply(r, "POST", req[r].uid, req[r].body, MsgError)
            /\ UNCHANGED <<redis, lockLeft>>
    /\ UNCHANGED <<people, seq, redisUp, nops, job, age, jstart, jclean>>

-----------------------------------------------------------------------------
(* delete_user_by_id                                                       *)

\* new_keys, uid = get_keys(redis.keys("_key_*")), req["id"]; if uid in new_keys
DeleteKeys(r) ==
    /\ req[r].pc = "del_keys"
    /\ LET c == LockCheck(redisUp, redis, req[r].uid) IN
       IF c = "error" THEN Reply(r, "DELETE", req[r].uid, NoBody, MsgError)
       ELSE IF c = "locked" THEN Reply(r, "DELETE", req[r].uid, NoBody, MsgUnavailable)
       ELSE Goto(r, "DELETE", req[r].uid, NoBody, "del_select")
    /\ UNCHANGED <<people, seq, redis, redisUp, nops, job, age, lockLeft, jstart, jclean>>

\* cur = db.execute("select id from people where id = ?"); if not users
DeleteSelect(r) ==
    /\ req[r].pc = "del_select"
    /\ IF Rows(people, req[r].uid) = {}
       THEN Reply(r, "DELETE", req[r].uid, NoBody, MsgNothingToDelete)
       ELSE Goto(r, "DELETE", req[r].uid, NoBody, "del_write")
    /\ UNCHANGED <<people, seq, redis, redisUp, nops, job, age, lockLeft, jstart, jclean>>

\* db.execute("delete from people where id=?"); db.commit(); return
DeleteWrite(r) ==
    /\ req[r].pc = "del_write"
    /\ people' = DeleteRows(people, req[r].uid)
    /\ Reply(r, "DELETE", req[r].uid, NoBody, MsgDeleted)
    /\ jclean' = FALSE
    /\ jstart' = <<>>
    /\ UNCHANGED <<seq, redis, redisUp, nops, job, age, lockLeft>>

-----------------------------------------------------------------------------
(* update_user                                                             *)

\* cur = db.execute("select id from people where id = ?"); if not users
UpdateSelect(r) ==
    /\ req[r].pc = "upd_select"
    /\ IF Rows(people, req[r].uid) = {}
       THEN Reply(r, "PUT", req[r].uid, req[r].body, MsgNothingToUpdate)
       ELSE Goto(r, "PUT", req[r].uid, req[r].body, "upd_keys")
    /\ UNCHANGED <<people, seq, redis, redisUp, nops, job, age, lockLeft, jstart, jclean>>

\* The lock check of update_user that renews the lock it finds.
UpdateKeysRenewsLock(r) ==
    /\ req[r].pc = "upd_keys"
    /\ LET c == LockCheck(redisUp, redis, req[r].uid) IN
       IF c = "error"
       THEN Reply(r, "PUT", req[r].uid, req[r].body, MsgError) /\ UNCHANGED redis
       ELSE IF c = "locked"
       THEN /\ Reply(r, "PUT", req[r].uid, req[r].body, MsgUnavailable)
            /\ redis' = redis_setex(redis, KeyPrefix \o req[r].uid.s, expire_after)
       ELSE Goto(r, "PUT", req[r].uid, req[r].body, "upd_write") /\ UNCHANGED redis
    /\ UNCHANGED <<people, seq, redisUp, nops, job, age, lockLeft, jstart, jclean>>

\* new_keys = get_keys(redis.keys("_key_*")); if uid in new_keys
UpdateKeys(r) ==
    /\ req[r].pc = "upd_keys"
    /\ LET c == LockCheck(redisUp, redis, req[r].uid) IN
       IF c = "error" THEN Reply(r, "PUT", req[r].uid, req[r].body, MsgError)
       ELSE IF c = "locked" THEN Reply(r, "PUT", req[r].uid, req[r].body, MsgUnavailable)
       ELSE Goto(r, "PUT", req[r].uid, req[r].body, "upd_write")
    /\ UNCHANGED <<people, seq, redis, redisUp, nops, job, age, lockLeft, jstart, jclean>>

\* db.execute("update people set ... where id=?"); db.commit(); return
UpdateWrite(r) ==
    /\ req[r].pc = "upd_write"
    /\ people' = UpdateRows(people, req[r].uid, req[r].body)
    /\ Reply(r, "PUT", req[r].uid, req[r].body, MsgUpdated)
    /\ jclean' = FALSE
    /\ jstart' = <<>>
    /\ UNCHANGED <<seq, redis, redisUp, nops, job, age, lockLeft>>

-----------------------------------------------------------------------------
(* increment_points, the periodic task                                     *)

\* randint(a, b): any integer of a..b.
randint(a, b) == a..b

\* The increment drawn from 0..9.
IncrementsFromZero == randint(0, 9)

\* points += randint(1, 9)
Increments == randint(1, 9)

\* What happens to the rest of the run when "cur.fetchall()[0][0]" finds no
\* row: the IndexError leaves the loop and the task.
OnMissingRow(j) == [j EXCEPT !.pc = "idle", !.status = "failed"]

\* The task after the key at position j.i is done.
NextKey(j) ==
    IF j.i < Len(j.keys)
    THEN [j EXCEPT !.pc = "select", !.i = j.i + 1]
    ELSE [j EXCEPT !.pc = "idle", !.i = j.i + 1, !.status = "ok"]

\* new_keys = get_keys(redis.keys("_key_*")); if new_keys: ... else: print
JobKeys ==
    /\ job.pc = "idle"
    /\ nops < MaxOps
    /\ nops' = nops + 1
    /\ jstart' = people
    /\ jclean' = TRUE
    /\ IF ~redisUp
       THEN job' = JobIdle("failed")
       ELSE \E o \in Orders(redis_keys(redis)) :
              job' = IF Len(o) = 0 THEN JobIdle("none")
                     ELSE [pc |-> "select", keys |-> get_keys(o), i |-> 1,
                           points |-> 0, status |-> ""]
    /\ UNCHANGED <<people, seq, redis, redisUp, req, last, age, lockLeft>>

\* The task with one commit after the loop: the IndexError loses the points
\* written so far in the run.
JobSelectOneCommit ==
    /\ job.pc = "select"
    /\ LET rows == Rows(people, job.keys[job.i]) IN
       IF rows = {}
       THEN /\ job' = OnMissingRow(job)
            /\ people' = [n \in DOMAIN people |->
                            IF n \in DOMAIN jstart
                            THEN [people[n] EXCEPT !.points = jstart[n].points]
                            ELSE people[n]]
       ELSE /\ job' = [job EXCEPT !.pc = "update",
                                  !.points = people[CHOOSE n \in rows : TRUE].points]
            /\ UNCHANGED people
    /\ UNCHANGED <<seq, redis, redisUp, req, last, nops, age, lockLeft, jstart, jclean>>

\* cur = db.execute("select points from people where id=?", [key])
\* points = cur.fetchall()[0][0]
JobSelect ==
    /\ job.pc = "select"
    /\ LET rows == Rows(people, job.keys[job.i]) IN
       job' = IF rows = {} THEN OnMissingRow(job)
              ELSE [job EXCEPT !.pc = "update",
                               !.points = people[CHOOSE n \in rows : TRUE].points]
    /\ UNCHANGED <<people, seq, redis, redisUp, req, last, nops, age, lockLeft, jstart, jclean>>

\* points += randint(1, 9); db.execute("update people set points=? where id=?")
\* db.commit()
JobUpdate ==
    /\ job.pc = "update"
    /\ \E inc \in Increments :
         people' = UpdatePoints(people, job.keys[job.i], job.points + inc)
    /\ job' = NextKey(job)
    /\ UNCHANGED <<seq, redis, redisUp, req, last, nops, age, lockLeft, jstart, jclean>>

-----------------------------------------------------------------------------
(* The environment: time passes, the Redis server is lost and found.       *)

Min(a, b) == IF a < b THEN a ELSE b
Max(a, b) == IF a > b THEN a ELSE b

Tick ==
    /\ redis' = redis_elapse(redis, TickSeconds)
    /\ age' = [n \in DOMAIN age |-> Min(age[n] + TickSeconds, expire_after)]
    /\ lockLeft' = [n \in DOMAIN lockLeft |-> Max(lockLeft[n] - TickSeconds, 0)]
    /\ UNCHANGED <<people, seq, redisUp, req, last, nops, job, jstart, jclean>>

RedisDown ==
    /\ redisUp
    /\ nops < MaxOps
    /\ nops' = nops + 1
    /\ redisUp' = FALSE
    /\ UNCHANGED <<people, seq, redis, req, last, job, age, lockLeft, jstart, jclean>>

RedisBack ==
    /\ ~redisUp
    /\ redisUp' = TRUE
    /\ UNCHANGED <<people, seq, redis, req, last, nops, job, age, lockLeft, jstart, jclean>>

-----------------------------------------------------------------------------

\* A request arrives.
Request(r) ==
    \/ \E body \in NewUserBodies : PostUser(r, body)
    \/ \E uid \in UidInputs : DeleteUser(r, uid)
    \/ \E uid \in UidInputs, body \in UpdateBodies : PutUser(r, uid, body)

\* The handler of a request in progress runs its next statement.
ReqStep(r) ==
    \/ AddUserInsert(r)
    \/ AddUserSetex(r)
    \/ DeleteKeys(r)
    \/ DeleteSelect(r)
    \/ DeleteWrite(r)
    \/ UpdateSelect(r)
    \/ UpdateKeys(r)
    \/ UpdateWrite(r)

JobStep == JobKeys \/ JobSelect \/ JobUpdate

Next ==
    \/ \E r \in Reqs : Request(r)
    \/ \E r \in Reqs : ReqStep(r)
    \/ JobStep
    \/ Tick
    \/ RedisDown
    \/ RedisBack

Spec == Init /\ [][Next]_vars

\* Time passes.
FairSpec == Spec /\ WF_vars(Tick)

\* The service with one user in the table, added by a request that has just
\* returned: the row and its lock entry are both fresh.  The budget of
\* operations is counted from here.
InitBatch ==
    /\ people = Insert(<<>>, FirstSeq + 1, CHOOSE b \in NewUserBodies : TRUE)
    /\ seq = FirstSeq + 1
    /\ redis = redis_setex(<<>>, LockKey(FirstSeq + 1), expire_after)
    /\ redisUp = TRUE
    /\ req = [r \in Reqs |-> Idle]
    /\ last = [op |-> "POST", uid |-> Num(FirstSeq + 1),
               body |-> CHOOSE b \in NewUserBodies : TRUE, msg |-> MsgAdded,
               users |-> <<>>]
    /\ job = JobIdle("")
    /\ nops = 0
    /\ age = Insert(<<>>, FirstSeq + 1, 0)
    /\ lockLeft = Insert(<<>>, FirstSeq + 1, expire_after)
    /\ jstart = <<>>
    /\ jclean = FALSE

SpecBatch == InitBatch /\ [][Next]_vars

\* The service with its two read routes as well.
NextRead ==
    \/ Next
    \/ \E r \in Reqs : GetUsers(r)
    \/ \E r \in Reqs : \E uid \in UidInputs : GetUser(r, uid)
    \/ \E r \in Reqs : GetUsersSelect(r) \/ GetUserSelect(r)

SpecRead == Init /\ [][NextRead]_vars

\* The service with two users in the table, added by two requests that have
\* returned, the first of them half a lock period before the second: its lock
\* entry has half of its time left, the other one is fresh.  The run so far
\* is charged one operation of the budget.
InitPair ==
    LET b == CHOOSE x \in NewUserBodies : TRUE
        first == FirstSeq + 1
        second == FirstSeq + 2
        half == expire_after \div 2
    IN
    /\ people = Insert(Insert(<<>>, first, b), second, b)
    /\ seq = second
    /\ redis = redis_setex(redis_elapse(redis_setex(<<>>, LockKey(first), expire_after), half),
                           LockKey(second), expire_after)
    /\ redisUp = TRUE
    /\ req = [r \in Reqs |-> Idle]
    /\ last = [op |-> "POST", uid |-> Num(second), body |-> b, msg |-> MsgAdded,
               users |-> <<>>]
    /\ job = JobIdle("")
    /\ nops = 1
    /\ age = Insert(Insert(<<>>, first, half), second, 0)
    /\ lockLeft = Insert(Insert(<<>>, first, expire_after - half), second, expire_after)
    /\ jstart = <<>>
    /\ jclean = FALSE

\* From there on clients update and delete, the task runs and time passes.
NextPair ==
    \/ \E r \in Reqs : \E uid \in UidInputs : DeleteUser(r, uid)
    \/ \E r \in Reqs : \E uid \in UidInputs, body \in UpdateBodies : PutUser(r, uid, body)
    \/ \E r \in Reqs : DeleteKeys(r) \/ DeleteSelect(r) \/ DeleteWrite(r)
    \/ \E r \in Reqs : UpdateSelect(r) \/ UpdateKeys(r) \/ UpdateWrite(r)
    \/ JobStep
    \/ Tick

SpecPair == InitPair /\ [][NextPair]_vars

\* The lock statement of add_user on its own, run for any id any number of
\* times, with time passing in thirds of the lock period.  age counts from
\* the first time an id was locked, lockLeft from the latest.
SetLock(n) ==
    /\ nops < MaxOps
    /\ nops' = nops + 1
    /\ redis' = redis_setex(redis, LockKey(n), expire_after)
    /\ age' = IF n \in DOMAIN age THEN age ELSE Insert(age, n, 0)
    /\ lockLeft' = Insert(lockLeft, n, expire_after)
    /\ UNCHANGED <<people, seq, redisUp, req, last, job, jstart, jclean>>

Elapse ==
    LET d == expire_after \div 3 IN
    /\ redis' = redis_elapse(redis, d)
    /\ age' = [n \in DOMAIN age |-> Min(age[n] + d, expire_after)]
    /\ lockLeft' = [n \in DOMAIN lockLeft |-> Max(lockLeft[n] - d, 0)]
    /\ UNCHANGED <<people, seq, redisUp, req, last, nops, job, jstart, jclean>>

NextLock == (\E n \in AllIds : SetLock(n)) \/ Elapse

SpecLock == Init /\ [][NextLock]_vars

-----------------------------------------------------------------------------
(* Vocabulary of the properties.                                           *)

\* A lock entry for row id n is present in Redis.
Locked(n) == LockKey(n) \in DOMAIN redis

\* Context r runs a statement of its handler in this step.
Steps(r) == req[r].pc # "idle" /\ req'[r] # req[r]

\* Context r sends its response in this step.
Replied(r) == req[r].pc # "idle" /\ req'[r].pc = "idle"

\* Context r runs the lock check of update_user or delete_user_by_id.
ChecksLock(r) == req[r].pc \in {"upd_keys", "del_keys"} /\ Steps(r)

\* Context r commits the write of update_user or delete_user_by_id.
Writes(r) == req[r].pc \in {"upd_write", "del_write"} /\ Steps(r)

-----------------------------------------------------------------------------
(* C1.  Once add_user has returned id N and while the lock entry of N is   *)
(* present, an update or delete request that carries N as the JSON number  *)
(* add_user returned is answered "User not available, try later" at its    *)
(* lock check and the table is left as it is.                              *)

C1_LockedNumberIsRejected ==
    [][\A r \in Reqs :
         (/\ ChecksLock(r)
          /\ redisUp
          /\ req[r].uid.t = "int"
          /\ Locked(req[r].uid.n)
          /\ req[r].uid.n \in DOMAIN people)
         => (Replied(r) /\ last'.msg = MsgUnavailable /\ people' = people)]_vars

-----------------------------------------------------------------------------
(* C2.  No write of update_user and no removal of delete_user_by_id is     *)
(* committed for a row while a lock entry for that row is present.         *)

C2_NoWriteWhileLocked ==
    [][\A r \in Reqs :
         Writes(r) => \A n \in Rows(people, req[r].uid) : ~Locked(n)]_vars

-----------------------------------------------------------------------------
(* C3.  The write-back of the periodic task never loses a committed write: *)
(* the points it stores are the points the row holds at that moment plus   *)
(* the increment, an integer of 1..9.                                      *)

C3_TaskKeepsCommittedPoints ==
    [][(job.pc = "update" /\ job' # job)
         => \A n \in Rows(people, job.keys[job.i]) :
               people'[n].points - people[n].points \in 1..9]_vars

-----------------------------------------------------------------------------
(* C4.  The lock entry of every id eventually expires and is never set     *)
(* again; from then on, with Redis reachable, an update of the row that is *)
(* still in the table answers "User updated" and stores the new fields,    *)
(* and a delete answers "User deleted" and removes the row.                *)

C4_Expires == \A n \in AllIds : Locked(n) ~> ~Locked(n)

C4_StaysExpired ==
    [][\A n \in DOMAIN lockLeft : ~Locked(n) => LockKey(n) \notin DOMAIN redis']_vars

C4_ThenMutable ==
    [][\A r \in Reqs : \A n \in DOMAIN lockLeft :
         (/\ Replied(r)
          /\ redisUp
          /\ ~Locked(n)
          /\ n \in DOMAIN people
          /\ IdMatches(n, req[r].uid))
         => /\ req[r].op = "PUT" =>
                 /\ last'.msg = MsgUpdated
                 /\ n \in DOMAIN people'
                 /\ people'[n] = req[r].body
            /\ req[r].op = "DELETE" =>
                 /\ last'.msg = MsgDeleted
                 /\ n \notin DOMAIN people']_vars

C4_ExpiredLockLeavesRecordMutable == C4_Expires /\ C4_StaysExpired /\ C4_ThenMutable

\* An update answered "User updated" for a row whose lock has expired.
C4_Witness ==
    /\ last.op = "PUT"
    /\ last.msg = MsgUpdated
    /\ \E n \in DOMAIN lockLeft :
         /\ ~Locked(n)
         /\ IdMatches(n, last.uid)
         /\ n \in DOMAIN people
         /\ people[n] = last.body

-----------------------------------------------------------------------------
(* C5.  When a run of the periodic task has ended, every id of its key     *)
(* list whose row is in the table has had its increment written by that    *)
(* run, also when the row of another id of the list was missing.           *)

C5_TaskSkipsOnlyMissingRows ==
    (job.pc = "idle" /\ job.status \in {"ok", "failed"})
    => \A k \in 1..Len(job.keys) : Rows(people, job.keys[k]) # {} => k < job.i

-----------------------------------------------------------------------------
(* C6.  Whenever update_user or delete_user_by_id answers at one of its    *)
(* checks for an id that has no row, with Redis reachable, the             *)
(* answer is "Nothing to update" or "Nothing to delete", whatever lock     *)
(* entries are present, and neither store changes.                         *)

C6_AbsentIdIsNothingToDo ==
    [][\A r \in Reqs :
         (/\ Replied(r)
          /\ req[r].pc \in {"upd_select", "del_keys", "del_select"}
          /\ redisUp
          /\ Rows(people, req[r].uid) = {})
         => /\ last'.msg = IF req[r].op = "PUT" THEN MsgNothingToUpdate
                           ELSE MsgNothingToDelete
            /\ people' = people
            /\ redis' = redis]_vars

-----------------------------------------------------------------------------
(* C7.  In every state, a lock entry for row id X is present if and only   *)
(* if the insert of X committed less than 30 minutes ago.                  *)

C7_LockedIffRecentlyCreated ==
    \A n \in DOMAIN age : Locked(n) <=> age[n] < expire_after

-----------------------------------------------------------------------------
(* C8.  In every state, and for every order in which Redis returns the     *)
(* keys, get_keys(redis.keys("_key_*")) holds exactly the ids whose lock   *)
(* has been set and has not expired, each as its decimal text.             *)

C8_GetKeysAreTheLockedIds ==
    \A o \in Orders(redis_keys(redis)) :
        {get_keys(o)[i] : i \in 1..Len(o)}
          = {Txt(str_int(n)) : n \in {m \in DOMAIN lockLeft : lockLeft[m] > 0}}

\* Two locks are in force, one of an id of one digit and one of two.
C8_Witness ==
    /\ Cardinality(redis_keys(redis)) = 2
    /\ \E m, n \in DOMAIN lockLeft : m < 10 /\ n >= 10 /\ lockLeft[m] > 0 /\ lockLeft[n] > 0

-----------------------------------------------------------------------------
(* C9.  When a run of the periodic task has ended normally and no request  *)
(* wrote the table since it started, every row of its key list holds the   *)
(* points it held at the start of the run plus an integer of 1..9; this    *)
(* holds of each run, so consecutive runs add up.                          *)

-----------------------------------------------------------------------------
(* C10.  When Redis does not answer at the lock check of update_user or    *)
(* delete_user_by_id, the request ends there with a server error and the   *)
(* table is not written.                                                   *)

C10_UnreachableRedisFailsClosed ==
    [][\A r \in Reqs :
         (ChecksLock(r) /\ ~redisUp)
         => Replied(r) /\ last'.msg = MsgError /\ people' = people]_vars

\* A delete of a row that is in the table has failed on Redis.
C10_Witness ==
    /\ last.op = "DELETE"
    /\ last.msg = MsgError
    /\ Rows(people, last.uid) # {}

-----------------------------------------------------------------------------
(* C11.  An update or delete request that ends "User not available, try    *)
(* later", "Nothing to update" or "Nothing to delete" changes neither the  *)
(* table nor the Redis keys, in the step that sends the answer and in the  *)
(* checks that came before it: no lock entry is removed and none gets a    *)
(* new expiry.                                                             *)

Rejections == {MsgUnavailable, MsgNothingToUpdate, MsgNothingToDelete}

C11_RejectionChangesNothing ==
    [][\A r \in Reqs :
         (/\ Steps(r)
          /\ req[r].op \in {"PUT", "DELETE"}
          /\ \/ Replied(r) /\ last'.msg \in Rejections
             \/ ~Replied(r))
         => people' = people /\ redis' = redis]_vars

\* An update of a locked row has been rejected; the row is as add_user left
\* it and its lock entry still has the half period it had.
C11_Witness ==
    /\ last.op = "PUT"
    /\ last.msg = MsgUnavailable
    /\ \E n \in DOMAIN people :
         /\ IdMatches(n, last.uid)
         /\ people[n] \in NewUserBodies
         /\ Locked(n)
         /\ redis[LockKey(n)] = expire_after \div 2

-----------------------------------------------------------------------------
(* C12.  However often and whenever the lock of an id has been set, Redis  *)
(* holds at most one key of that id, and it holds one exactly while less   *)
(* than expire_after seconds have passed since the latest time it was set; *)
(* the time left of the key counts from that latest time, not the first.   *)

LockKeysOf(n) == {k \in redis_keys(redis) : KeySlice(k) = str_int(n)}

C12_LockCountsFromLatestSet ==
    \A n \in DOMAIN lockLeft :
        /\ Cardinality(LockKeysOf(n)) = IF lockLeft[n] > 0 THEN 1 ELSE 0
        /\ lockLeft[n] > 0 => redis[LockKey(n)] = lockLeft[n]

\* A full lock period after an id was first locked its key is there with a
\* third of the period gone: the lock was set again in between.
C12_Witness ==
    \E n \in DOMAIN age :
        /\ age[n] = expire_after
        /\ Locked(n)
        /\ redis[LockKey(n)] = expire_after - expire_after \div 3

-----------------------------------------------------------------------------
(* C13.  get_users and get_user leave the table and the Redis keys as they *)
(* are, and what they answer is a function of the table alone: get_users   *)
(* returns every row, get_user the rows of the id asked for, "found" when  *)
(* there is one and "not found" when there is none, whether or not a lock  *)
(* entry of such a row is in Redis and whether or not Redis can be reached.*)

ReadAnswer(tbl, op, uid) ==
    LET ids == IF op = "GET" THEN Rows(tbl, uid) ELSE DOMAIN tbl
        found == IF op = "GET" THEN MsgUserFound ELSE MsgUsersFound
        none == IF op = "GET" THEN MsgUserNotFound ELSE MsgUsersNotFound
    IN [op |-> op, uid |-> uid, body |-> NoBody,
        msg |-> IF ids = {} THEN none ELSE found,
        users |-> [n \in ids |-> tbl[n]]]

C13_ReadsArePure ==
    [][\A r \in Reqs :
         (Steps(r) /\ req[r].op \in {"GET", "GET_USERS"})
         => /\ people' = people
            /\ redis' = redis
            /\ last' = ReadAnswer(people, req[r].op, req[r].uid)]_vars

\* get_user has returned a row whose lock entry is in Redis.
C13_Witness ==
    /\ last.op = "GET"
    /\ last.msg = MsgUserFound
    /\ \E n \in DOMAIN last.users : Locked(n) /\ n \in DOMAIN people

-----------------------------------------------------------------------------
(* C14.  Whenever the periodic task commits new points for a row, the lock *)
(* entry of that row is in Redis at that moment, also when time has passed *)
(* since the task listed the keys.                                         *)

C14_TaskWritesOnlyLockedRows ==
    [][(job.pc = "update" /\ job' # job)
       => \A n \in DOMAIN people : people'[n] # people[n] => Locked(n)]_vars

-----------------------------------------------------------------------------
(* C15.  With Redis reachable, for an id whose lock entry is in Redis and  *)
(* whose row is not in the table, update_user answers "Nothing to update"  *)
(* at its select and delete_user_by_id answers "User not available, try    *)
(* later" at its lock check.                                               *)

LockedWithoutRow(uid) ==
    \E n \in DOMAIN lockLeft : IdMatches(n, uid) /\ Locked(n) /\ n \notin DOMAIN people

C15_LockedWithoutRow ==
    [][\A r \in Reqs :
         (Steps(r) /\ redisUp /\ LockedWithoutRow(req[r].uid))
         => /\ req[r].pc = "upd_select"
               => Replied(r) /\ last'.msg = MsgNothingToUpdate
            /\ req[r].pc = "del_keys"
               => Replied(r) /\ last'.msg = MsgUnavailable]_vars

-----------------------------------------------------------------------------
(* C16.  When a run of the periodic task has ended in the IndexError of a  *)
(* key without a row, and no request wrote the table since the run began,  *)
(* every row of a key before that one still holds the points it held at    *)
(* the start of the run plus the integer of 1..9 the run added.            *)

C16_FailedRunKeepsEarlierPoints ==
    (job.pc = "idle" /\ job.status = "failed" /\ jclean)
    => \A k \in 1..(job.i - 1) : \A n \in Rows(jstart, job.keys[k]) :
         /\ n \in DOMAIN people
         /\ people[n].points - jstart[n].points \in randint(1, 9)

\* A run over two keys has ended at the second, whose row is missing; the
\* row of the first is in the table.
C16_Witness ==
    /\ job.pc = "idle"
    /\ job.status = "failed"
    /\ jclean
    /\ Len(job.keys) = 2
    /\ job.i = 2
    /\ Rows(people, job.keys[1]) # {}
    /\ Rows(people, job.keys[2]) = {}

-----------------------------------------------------------------------------
(* C17.  A step of the periodic task leaves the Redis keys as they are,    *)
(* adds no row and removes none, and changes a row only if its id is among *)
(* the keys the run listed, and then only its points; a run that listed no *)
(* key changes nothing.                                                    *)

InKeys(n, keys) == \E k \in 1..Len(keys) : IdMatches(n, keys[k])

C17_TaskChangesOnlyPointsOfItsKeys ==
    [][JobStep
       => /\ redis' = redis
          /\ DOMAIN people' = DOMAIN people
          /\ \A n \in DOMAIN people :
               people'[n] # people[n]
               => /\ InKeys(n, job.keys)
                  /\ people'[n] = [people[n] EXCEPT !.points = people'[n].points]]_vars

\* A run over one key has ended with two rows in the table: the row of the
\* key has other points than before and the same fields otherwise, the other
\* row is as it was.
C17_Witness ==
    /\ job.pc = "idle" /\ job.status = "ok" /\ jclean
    /\ Len(job.keys) = 1
    /\ DOMAIN people = DOMAIN jstart
    /\ \E m, n \in DOMAIN people :
         /\ m # n
         /\ InKeys(n, job.keys) /\ people[n].points # jstart[n].points
         /\ ~InKeys(m, job.keys) /\ people[m] = jstart[m]

-----------------------------------------------------------------------------
(* C18.  In every state the lock check of delete_user_by_id and            *)
(* update_user comes out the same for an id sent as a JSON number and for  *)
(* the same id sent as its decimal text.                                   *)

C18_LockCheckIgnoresEncoding ==
    \A n \in DOMAIN age :
        LockCheck(redisUp, redis, Num(n)) = LockCheck(redisUp, redis, Txt(str_int(n)))

-----------------------------------------------------------------------------
(* C19.  In every state, every lock entry in Redis is the entry of an id   *)
(* whose row is in the table.                                              *)

C19_EveryLockHasItsRow ==
    \A n \in DOMAIN lockLeft : Locked(n) => n \in DOMAIN people

-----------------------------------------------------------------------------
(* C20.  The write of update_user sets name, surname, birth and points of  *)
(* the row with the id of the request to the fields of the request and     *)
(* keeps that row under its id; the write of delete_user_by_id removes     *)
(* that row.  Either leaves every other row and every Redis key, with its  *)
(* remaining time, as it was.                                              *)

C20_WriteTouchesOnlyItsRow ==
    [][\A r \in Reqs :
         Writes(r)
         => LET mine == Rows(people, req[r].uid) IN
            /\ redis' = redis
            /\ \A n \in DOMAIN people \ mine : n \in DOMAIN people' /\ people'[n] = people[n]
            /\ req[r].op = "PUT"
               => /\ DOMAIN people' = DOMAIN people
                  /\ \A n \in mine : people'[n] = req[r].body
            /\ req[r].op = "DELETE"
               => DOMAIN people' = DOMAIN people \ mine]_vars

\* A delete has removed its row; another row and a lock entry are still
\* there.
C20_Witness ==
    /\ last.op = "DELETE"
    /\ last.msg = MsgDeleted
    /\ Rows(people, last.uid) = {}
    /\ \E n \in DOMAIN people : people[n] \in NewUserBodies
    /\ \E n \in DOMAIN lockLeft : Locked(n)

====
